---- MODULE Spec2Model ----
(***************************************************************************)
(* handympi: foreach() over MPIBalancer (master on rank 0, slaves on the   *)
(* other ranks of COMM_WORLD), with the GenericMPI work object.            *)
(* RunMasterSlave() with the SimpleMasterSlave work object runs over the   *)
(* same balancer (MSSpec).                                                 *)
(*                                                                         *)
(* Indices are Python's: work numbers run from 0, and the Python list at   *)
(* index k is the TLA+ sequence at k + 1.                                  *)
(***************************************************************************)
EXTENDS Integers, Sequences, FiniteSets, TLC

\* ---- bounds of the model ------------------------------------------------
MaxProcs == 3   \* largest communicator size (one master, MaxProcs - 1 slaves)
MaxLen == 3     \* longest work list
MaxRuns == 2    \* the number of foreach calls a rank makes, one after the other
MaxNeg == 2     \* an overridden getNumWorkItems returns -MaxNeg .. -1
\* the elements of the work list are drawn from
Vals == {2, 3}

\* ---- program constants --------------------------------------------------
MPI_WORKTAG == 1
MPI_DIETAG == 2
\* the payloads rank 0 sends: a work number, or the string '#'; Unbound is a
\* local variable not assigned yet
PyInt(n) == [int |-> n]
PyStr(s) == [str |-> s]
Unbound == [unbound |-> TRUE]
\* Python's None, as it fills GMPI.results; every computed value is >= 0
None == -1

VARIABLES
    importOK,     \* "from mpi4py import MPI" succeeded
    rendezvous,   \* comm.send returns only once the message is received (MPI's
                  \* standard mode may do that, or buffer the message and return)
    numprocs,     \* comm.Get_size()
    applyFunc,    \* f, the function handed to foreach
    worklist,     \* l, the list handed to foreach
    nextlist,     \* the list handed to foreach when a rank calls it once more
    finalRun,     \* foreach's finalRun, handed on to MPIBalancer.run
    entry,        \* the function the ranks call: "foreach" or "RunMasterSlave"
    masterClass,  \* RunMasterSlave's arguments: "class" (a constructor taking no
    slaveClass,   \* argument) or "instance" (a ready object); "none" for foreach
    countOverride, \* {} for GenericMPI as it is; {n} for a work object that
                  \* overrides getNumWorkItems to return n
    useMPI,       \* foreach's useMPI argument
    return_,      \* foreach's return_ argument
    pc,           \* where each rank is in foreach / MPIBalancer.run
    toSlave,      \* toSlave[w]: messages sent by rank 0 to rank w, not yet received
    toMaster,     \* toMaster[w]: messages sent by rank w to rank 0, not yet received
    i,            \* master: loop variable of the seed loop and of the DIETAG loop
    work,         \* master: loop variable of the dispatch loop
    numcompleted, \* master: numcompleted
    result,       \* master: result of the last comm.recv
    statusSource, \* master: self.status.source
    slaveResult,  \* slave w: result of the last comm.recv
    statusTag,    \* slave w: self.status.tag
    myresult,     \* slave w: myresult
    results,      \* rank 0: GMPI.results
    count,        \* rank 0: GMPI.count
    retval,       \* what foreach returned on each rank
    sent,         \* history: every message rank 0 sent to rank w, in order
    nresults,     \* history: number of results rank w sent
    handled,      \* history: the handleWorkResult calls, in order
    calls,        \* history: the other operations of the work object called on
                  \* each rank (uplink, getNumWorkItems, the four hooks), in order
    calcLog,      \* history: the work numbers calcWorkResult was called with on rank w
    run,          \* run[r]: the number of foreach calls rank r has begun, this one included
    masterInstance, \* per rank: "unset", "given" (the object handed in) or "new"
    slaveInstance,  \* (the object a call of the constructor returned)
    invoked,      \* history: the arguments rank r has called with no argument
    runLog        \* history: the run of the sending rank at each send to a slave (.sent[w]),
                  \* at each result sent by a slave (.res[w]), and the run of rank 0 at each
                  \* handleWorkResult call (.handled)

inputs == <<importOK, rendezvous, numprocs, applyFunc, worklist, nextlist, finalRun, countOverride,
           useMPI, return_, entry, masterClass, slaveClass>>
msState == <<masterInstance, slaveInstance, invoked>>
masterLocals == <<i, work, numcompleted, result, statusSource>>
slaveLocals == <<slaveResult, statusTag, myresult>>
gmpi == <<results, count>>
channels == <<toSlave, toMaster>>
history == <<sent, nresults, handled, runLog>>
callLog == <<calls, calcLog>>
vars == <<inputs, run, msState, pc, channels, masterLocals, slaveLocals, gmpi, retval, history, callLog>>

Ranks == 0 .. numprocs - 1
Slaves == 1 .. numprocs - 1

Min(a, b) == IF a < b THEN a ELSE b

\* ---- handympi.py, module level -------------------------------------------
HAVE_MPI4PY == 0
HAVE_MPI == IF importOK THEN 1 ELSE 0
MY_RANK(r) == IF importOK THEN r ELSE 0

\* the functions the repository applies: x*x in __main__, x**3 in the test
Funcs == {"square", "cube"}
Apply(f, x) == IF f = "square" THEN x * x ELSE x * x * x

\* the list of the foreach call rank r is in
RunList(k) == IF k = 1 THEN worklist ELSE nextlist
ListOf(r) == RunList(run[r])

\* ---- GenericMPI -----------------------------------------------------------
getNumWorkItems ==
    IF countOverride = {} THEN Len(ListOf(0)) ELSE CHOOSE n \in countOverride : TRUE
numworks == getNumWorkItems

\* a bug: the function is not applied
calcWorkResultNoApply(l, worknum) == <<worknum, l[worknum + 1]>>

calcWorkResult(l, worknum) == <<worknum, Apply(applyFunc, l[worknum + 1])>>

\* a bug: the value is stored at the position of its arrival
StoreResultByArrival(res, r) == [res EXCEPT ![count + 1] = r[2]]

\* self.results[result[0]] = result[1]
StoreResult(res, r) == [res EXCEPT ![r[1] + 1] = r[2]]

\* ---- foreach, serial branch ----------------------------------------------
RECURSIVE SerialLoop(_, _, _)
SerialLoop(f, l, acc) ==
    IF l = <<>> THEN acc
    ELSE SerialLoop(f, Tail(l), Append(acc, Apply(f, Head(l))))

\* Python values a call of foreach can return: a list, a string that ends in
\* str(MY_RANK), or None; Unset stands for "has not returned"
PyList(l) == [kind |-> "list", value |-> l]
Placeholder(r) == [kind |-> "You don't get results in this rank!:", value |-> <<r>>]
PyNone == [kind |-> "None", value |-> <<>>]
Unset == [kind |-> "unset", value |-> <<>>]

ForeachSerial(f, l, ret) == IF ret THEN PyList(SerialLoop(f, l, <<>>)) ELSE PyNone

\* ---- helpers on message sequences ----------------------------------------
Msg(tag, data) == [tag |-> tag, data |-> data]

\* the number of messages of s that carry the tag
CountTag(s, tag) == Cardinality({j \in 1 .. Len(s) : s[j].tag = tag})

\* the messages rank w has received so far (channels are FIFO per pair)
Received(w) == SubSeq(sent[w], 1, Len(sent[w]) - Len(toSlave[w]))

\* comm.send has returned on rank 0, on rank w: under rendezvous, the message
\* sent last has been received
MasterSendReturned == rendezvous => \A w \in Slaves : toSlave[w] = <<>>
SlaveSendReturned(w) == rendezvous => toMaster[w] = <<>>

\* ---- initial states ---------------------------------------------------------
RECURSIVE SeqsUpTo(_, _)
SeqsUpTo(S, n) ==
    IF n = 0 THEN {<<>>}
    ELSE LET shorter == SeqsUpTo(S, n - 1)
         IN shorter \cup {Append(s, x) : s \in {t \in shorter : Len(t) = n - 1}, x \in S}

\* the state before any rank has called foreach
Start ==
    /\ importOK \in BOOLEAN
    /\ rendezvous \in BOOLEAN
    /\ importOK = FALSE => rendezvous = FALSE
    /\ numprocs \in 1 .. MaxProcs
    /\ importOK = FALSE => numprocs = 1
    /\ applyFunc \in Funcs
    /\ worklist \in SeqsUpTo(Vals, MaxLen)
    /\ useMPI \in BOOLEAN
    /\ return_ \in BOOLEAN
    /\ pc = [r \in Ranks |-> "start"]
    /\ toSlave = [w \in Slaves |-> <<>>]
    /\ toMaster = [w \in Slaves |-> <<>>]
    /\ i = 0
    /\ work = 0
    /\ numcompleted = 0
    /\ result = <<>>
    /\ statusSource = 0
    /\ slaveResult = [w \in Slaves |-> Unbound]
    /\ statusTag = [w \in Slaves |-> 0]
    /\ myresult = [w \in Slaves |-> <<>>]
    /\ results = <<>>
    /\ count = 0
    /\ retval = [r \in Ranks |-> Unset]
    /\ sent = [w \in Slaves |-> <<>>]
    /\ nresults = [w \in Slaves |-> 0]
    /\ handled = <<>>
    /\ calls = [r \in Ranks |-> <<>>]
    /\ calcLog = [w \in Slaves |-> <<>>]
    /\ run = [r \in Ranks |-> 1]
    /\ masterInstance = [r \in Ranks |-> "unset"]
    /\ slaveInstance = [r \in Ranks |-> "unset"]
    /\ invoked = [r \in Ranks |-> <<>>]
    /\ runLog = [sent |-> [w \in Slaves |-> <<>>], res |-> [w \in Slaves |-> <<>>],
                 handled |-> <<>>]

\* one call of foreach, which builds GenericMPI(f, l) itself: getNumWorkItems is len(l)
OneCall == nextlist = <<>> /\ finalRun = TRUE
\* the ranks call foreach
ForeachCall == entry = "foreach" /\ masterClass = "none" /\ slaveClass = "none"
Init == Start /\ countOverride = {} /\ OneCall /\ ForeachCall

\* ---- foreach: choice of branch, and MPIBalancer.__init__ --------------------
UseDistributed == HAVE_MPI = 1 /\ useMPI

\* "if self.numprocs < 2: raise Exception(msg)"
TooFewProcs == numprocs < 2

\* the serial branch of foreach, whole
ForeachLocal(r) ==
    /\ entry = "foreach"
    /\ pc[r] = "start"
    /\ ~UseDistributed
    /\ retval' = [retval EXCEPT ![r] = ForeachSerial(applyFunc, ListOf(r), return_)]
    /\ pc' = [pc EXCEPT ![r] = "done"]
    /\ UNCHANGED <<inputs, run, msState, channels, masterLocals, slaveLocals, gmpi, history, callLog>>

\* a bug: the number of processes is tested after the work object was used
InitCallsTestLate == <<"uplink", "getNumWorkItems">>

\* what MPIBalancer.__init__ calls on the work object: nothing when it raises
InitCalls == IF TooFewProcs THEN <<>> ELSE <<"uplink", "getNumWorkItems">>

\* GenericMPI(f, l) and MPIBalancer(GMPI, False)
BalancerInit(r) ==
    /\ pc[r] = "start"
    /\ UseDistributed
    /\ pc' = [pc EXCEPT ![r] = IF TooFewProcs THEN "raised" ELSE "before"]
    /\ calls' = [calls EXCEPT ![r] = @ \o InitCalls]
    /\ UNCHANGED <<inputs, run, msState, channels, masterLocals, slaveLocals, gmpi, retval, history, calcLog>>

\* MPIBalancer.run: the hooks of rank 0 and those of the other ranks
BeforeHookSwapped(r) == IF r = 0 THEN "slaveBeforeWork" ELSE "masterBeforeWork"
BeforeHook(r) == IF r = 0 THEN "masterBeforeWork" ELSE "slaveBeforeWork"
AfterHook(r) == IF r = 0 THEN "masterAfterWork" ELSE "slaveAfterWork"

\* ---- MPIBalancer.run on rank 0 ------------------------------------------------
\* GenericMPI.masterBeforeWork
MasterBeforeWork ==
    /\ entry = "foreach"
    /\ pc[0] = "before"
    /\ MasterSendReturned
    /\ count' = 0
    /\ results' = [k \in 1 .. Len(ListOf(0)) |-> None]
    /\ pc' = [pc EXCEPT ![0] = "master"]
    /\ calls' = [calls EXCEPT ![0] = Append(@, BeforeHook(0))]
    /\ UNCHANGED <<inputs, run, msState, channels, masterLocals, slaveLocals, retval, history, calcLog>>

\* a bug: the counter is an attribute kept from the run before
CompletedKept == numcompleted

\* numcompleted = 0
CompletedAtEntry == 0

\* MPIBalancer.master, up to the seed loop
MasterEnter ==
    /\ pc[0] = "master"
    /\ MasterSendReturned
    /\ numcompleted' = CompletedAtEntry
    /\ i' = 0
    /\ pc' = [pc EXCEPT ![0] = "seed"]
    /\ UNCHANGED <<inputs, run, msState, channels, work, result, statusSource, slaveLocals, gmpi,
                   retval, history, callLog>>

\* comm.send(data, dest=w, tag=tag) on rank 0
SendToSlave(w, tag, data) ==
    /\ toSlave' = [toSlave EXCEPT ![w] = Append(@, Msg(tag, data))]
    /\ sent' = [sent EXCEPT ![w] = Append(@, Msg(tag, data))]
    /\ runLog' = [runLog EXCEPT !.sent[w] = Append(@, run[0])]

\* a bug: every slave is seeded, whatever the number of items
SeedCountNoMin == numprocs - 1

\* range(0, min(self.numprocs-1, self.numworks))
SeedCount == Min(numprocs - 1, numworks)

\* a bug: the seed items are handed out from the last rank down
SeedDestReversed(k) == numprocs - 1 - k

\* slave = i+1
SeedDest(k) == k + 1

MasterSeedSend ==
    /\ pc[0] = "seed"
    /\ MasterSendReturned
    /\ i < SeedCount
    /\ SendToSlave(SeedDest(i), MPI_WORKTAG, PyInt(i))
    /\ i' = i + 1
    /\ UNCHANGED <<inputs, run, msState, pc, toMaster, work, numcompleted, result, statusSource,
                   slaveLocals, gmpi, retval, nresults, handled, callLog>>

\* a bug: the dispatch loop starts one item early
DispatchFirstEarly == numprocs - 2

\* range(self.numprocs-1, self.numworks) starts at
DispatchFirst == numprocs - 1

MasterSeedDone ==
    /\ pc[0] = "seed"
    /\ MasterSendReturned
    /\ ~(i < SeedCount)
    /\ work' = DispatchFirst
    /\ pc' = [pc EXCEPT ![0] = "dispatch"]
    /\ UNCHANGED <<inputs, run, msState, channels, i, numcompleted, result, statusSource,
                   slaveLocals, gmpi, retval, history, callLog>>

\* comm.recv(source=MPI.ANY_SOURCE, tag=MPI_WORKTAG, status=self.status) from w
RecvFromSlave(w) ==
    /\ toMaster[w] # <<>>
    /\ Head(toMaster[w]).tag = MPI_WORKTAG
    /\ result' = Head(toMaster[w]).data
    /\ statusSource' = w
    /\ toMaster' = [toMaster EXCEPT ![w] = Tail(@)]

MasterDispatchRecv ==
    /\ pc[0] = "dispatch"
    /\ MasterSendReturned
    /\ work < numworks
    /\ \E w \in Slaves : RecvFromSlave(w)
    /\ numcompleted' = numcompleted + 1
    /\ pc' = [pc EXCEPT ![0] = "dispatchSend"]
    /\ UNCHANGED <<inputs, run, msState, toSlave, i, work, slaveLocals, gmpi, retval, history, callLog>>

\* a bug: the next item goes to the rank after the one that answered
DispatchDestNextRank == IF statusSource = numprocs - 1 THEN 1 ELSE statusSource + 1

\* dest=self.status.source
DispatchDest == statusSource

MasterDispatchSend ==
    /\ pc[0] = "dispatchSend"
    /\ MasterSendReturned
    /\ DispatchDest \in Slaves
    /\ SendToSlave(DispatchDest, MPI_WORKTAG, PyInt(work))
    /\ pc' = [pc EXCEPT ![0] = "dispatchHandle"]
    /\ UNCHANGED <<inputs, run, msState, toMaster, masterLocals, slaveLocals, gmpi, retval,
                   nresults, handled, callLog>>

\* a bug: the rank of the seed loop is handed over in place of the status
HandleSourceSeedRank == i

\* self.status.source, as handleWorkResult(result, self.status) is handed it
HandleSource == statusSource

\* GenericMPI.handleWorkResult(result, status); SimpleMasterSlave's hands the
\* pair to the master object and leaves self.results as it is
handleWorkResult ==
    /\ IF entry = "foreach"
       THEN results' = StoreResult(results, result) /\ count' = count + 1
       ELSE UNCHANGED <<results, count>>
    /\ handled' = Append(handled, [index |-> result[1], value |-> result[2],
                                   source |-> HandleSource])
    /\ runLog' = [runLog EXCEPT !.handled = Append(@, run[0])]

MasterDispatchHandle ==
    /\ pc[0] = "dispatchHandle"
    /\ MasterSendReturned
    /\ handleWorkResult
    /\ work' = work + 1
    /\ pc' = [pc EXCEPT ![0] = "dispatch"]
    /\ UNCHANGED <<inputs, run, msState, channels, i, numcompleted, result, statusSource,
                   slaveLocals, retval, sent, nresults, callLog>>

MasterDispatchDone ==
    /\ pc[0] = "dispatch"
    /\ MasterSendReturned
    /\ ~(work < numworks)
    /\ pc' = [pc EXCEPT ![0] = "drain"]
    /\ UNCHANGED <<inputs, run, msState, channels, masterLocals, slaveLocals, gmpi, retval, history, callLog>>

\* a bug: the drain loop stops one result short
DrainCondShort == numcompleted < numworks - 1

\* a bug: the drain loop asks for one result too many
DrainCondLong == numcompleted <= numworks

\* while (numcompleted < self.numworks)
DrainCond == numcompleted < numworks

MasterDrainRecv ==
    /\ pc[0] = "drain"
    /\ MasterSendReturned
    /\ DrainCond
    /\ \E w \in Slaves : RecvFromSlave(w)
    /\ numcompleted' = numcompleted + 1
    /\ pc' = [pc EXCEPT ![0] = "drainHandle"]
    /\ UNCHANGED <<inputs, run, msState, toSlave, i, work, slaveLocals, gmpi, retval, history, callLog>>

MasterDrainHandle ==
    /\ pc[0] = "drainHandle"
    /\ MasterSendReturned
    /\ handleWorkResult
    /\ pc' = [pc EXCEPT ![0] = "drain"]
    /\ UNCHANGED <<inputs, run, msState, channels, masterLocals, slaveLocals, retval, sent, nresults, callLog>>

MasterDrainDone ==
    /\ pc[0] = "drain"
    /\ MasterSendReturned
    /\ ~DrainCond
    /\ i' = 1
    /\ pc' = [pc EXCEPT ![0] = "shutdown"]
    /\ UNCHANGED <<inputs, run, msState, channels, work, numcompleted, result, statusSource,
                   slaveLocals, gmpi, retval, history, callLog>>

\* a bug: the last rank gets no DIETAG
LastDieRankShort == numprocs - 2

\* range(1, self.numprocs) ends at
LastDieRank == numprocs - 1

MasterDieSend ==
    /\ pc[0] = "shutdown"
    /\ MasterSendReturned
    /\ i <= LastDieRank
    /\ SendToSlave(i, MPI_DIETAG, PyStr("#"))
    /\ i' = i + 1
    /\ UNCHANGED <<inputs, run, msState, pc, toMaster, work, numcompleted, result, statusSource,
                   slaveLocals, gmpi, retval, nresults, handled, callLog>>

MasterShutdownDone ==
    /\ pc[0] = "shutdown"
    /\ MasterSendReturned
    /\ ~(i <= LastDieRank)
    /\ pc' = [pc EXCEPT ![0] = "after"]
    /\ UNCHANGED <<inputs, run, msState, channels, masterLocals, slaveLocals, gmpi, retval, history, callLog>>

\* MPIWork.masterAfterWork: pass
MasterAfterWork ==
    /\ pc[0] = "after"
    /\ MasterSendReturned
    /\ pc' = [pc EXCEPT ![0] = "ret"]
    /\ calls' = [calls EXCEPT ![0] = Append(@, AfterHook(0))]
    /\ UNCHANGED <<inputs, run, msState, channels, masterLocals, slaveLocals, gmpi, retval, history, calcLog>>

\* ---- MPIBalancer.run on rank w > 0 --------------------------------------------
\* MPIWork.slaveBeforeWork: pass
SlaveBeforeWork(w) ==
    /\ entry = "foreach"
    /\ pc[w] = "before"
    /\ SlaveSendReturned(w)
    /\ pc' = [pc EXCEPT ![w] = "recv"]
    /\ calls' = [calls EXCEPT ![w] = Append(@, BeforeHook(w))]
    /\ UNCHANGED <<inputs, run, msState, channels, masterLocals, slaveLocals, gmpi, retval, history, calcLog>>

\* comm.recv(source=0, tag=MPI.ANY_TAG, status=self.status), then the test of the tag
SlaveRecv(w) ==
    /\ pc[w] = "recv"
    /\ SlaveSendReturned(w)
    /\ toSlave[w] # <<>>
    /\ slaveResult' = [slaveResult EXCEPT ![w] = Head(toSlave[w]).data]
    /\ statusTag' = [statusTag EXCEPT ![w] = Head(toSlave[w]).tag]
    /\ toSlave' = [toSlave EXCEPT ![w] = Tail(@)]
    /\ pc' = [pc EXCEPT ![w] = IF Head(toSlave[w]).tag = MPI_DIETAG THEN "after" ELSE "calc"]
    /\ UNCHANGED <<inputs, run, msState, toMaster, masterLocals, myresult, gmpi, retval, history, callLog>>

\* worknum = result; myresult = self.work.calcWorkResult(worknum)
SlaveCalc(w) ==
    /\ pc[w] = "calc"
    /\ SlaveSendReturned(w)
    /\ myresult' = [myresult EXCEPT ![w] = calcWorkResult(ListOf(w), slaveResult[w].int)]
    /\ pc' = [pc EXCEPT ![w] = "send"]
    /\ calcLog' = [calcLog EXCEPT ![w] = Append(@, slaveResult[w].int)]
    /\ UNCHANGED <<inputs, run, msState, channels, masterLocals, slaveResult, statusTag, gmpi,
                   retval, history, calls>>

\* comm.send(myresult, dest=0, tag=MPI_WORKTAG)
SlaveSend(w) ==
    /\ pc[w] = "send"
    /\ SlaveSendReturned(w)
    /\ toMaster' = [toMaster EXCEPT ![w] = Append(@, Msg(MPI_WORKTAG, myresult[w]))]
    /\ nresults' = [nresults EXCEPT ![w] = @ + 1]
    /\ runLog' = [runLog EXCEPT !.res[w] = Append(@, run[w])]
    /\ pc' = [pc EXCEPT ![w] = "recv"]
    /\ UNCHANGED <<inputs, run, msState, toSlave, masterLocals, slaveLocals, gmpi, retval, sent, handled, callLog>>

\* MPIWork.slaveAfterWork: pass
SlaveAfterWork(w) ==
    /\ pc[w] = "after"
    /\ SlaveSendReturned(w)
    /\ pc' = [pc EXCEPT ![w] = "ret"]
    /\ calls' = [calls EXCEPT ![w] = Append(@, AfterHook(w))]
    /\ UNCHANGED <<inputs, run, msState, channels, masterLocals, slaveLocals, gmpi, retval, history, calcLog>>

\* ---- foreach, after balancer.run(finalRun) ------------------------------------
ForeachResult(r) ==
    IF return_
    THEN IF MY_RANK(r) = 0 THEN PyList(results) ELSE Placeholder(MY_RANK(r))
    ELSE PyNone

ForeachReturn(r) ==
    /\ entry = "foreach"
    /\ pc[r] = "ret"
    /\ IF r = 0 THEN MasterSendReturned ELSE SlaveSendReturned(r)
    /\ retval' = [retval EXCEPT ![r] = ForeachResult(r)]
    /\ pc' = [pc EXCEPT ![r] = "done"]
    /\ UNCHANGED <<inputs, run, msState, channels, masterLocals, slaveLocals, gmpi, history, callLog>>

Next ==
    \/ \E r \in Ranks : ForeachLocal(r)
    \/ \E r \in Ranks : BalancerInit(r)
    \/ MasterBeforeWork
    \/ MasterEnter
    \/ MasterSeedSend
    \/ MasterSeedDone
    \/ MasterDispatchRecv
    \/ MasterDispatchSend
    \/ MasterDispatchHandle
    \/ MasterDispatchDone
    \/ MasterDrainRecv
    \/ MasterDrainHandle
    \/ MasterDrainDone
    \/ MasterDieSend
    \/ MasterShutdownDone
    \/ MasterAfterWork
    \/ \E w \in Slaves : SlaveBeforeWork(w)
    \/ \E w \in Slaves : SlaveRecv(w)
    \/ \E w \in Slaves : SlaveCalc(w)
    \/ \E w \in Slaves : SlaveSend(w)
    \/ \E w \in Slaves : SlaveAfterWork(w)
    \/ \E r \in Ranks : ForeachReturn(r)

Spec == Init /\ [][Next]_vars

\* every rank is a process of its own that keeps running while it can take a step
RankStep(r) ==
    /\ r \in Ranks
    /\ \/ ForeachLocal(r)
       \/ BalancerInit(r)
       \/ ForeachReturn(r)
       \/ /\ r = 0
          /\ \/ MasterBeforeWork
             \/ MasterEnter
             \/ MasterSeedSend
             \/ MasterSeedDone
             \/ MasterDispatchRecv
             \/ MasterDispatchSend
             \/ MasterDispatchHandle
             \/ MasterDispatchDone
             \/ MasterDrainRecv
             \/ MasterDrainHandle
             \/ MasterDrainDone
             \/ MasterDieSend
             \/ MasterShutdownDone
             \/ MasterAfterWork
       \/ /\ r \in Slaves
          /\ \/ SlaveBeforeWork(r)
             \/ SlaveRecv(r)
             \/ SlaveCalc(r)
             \/ SlaveSend(r)
             \/ SlaveAfterWork(r)

\* Which steps are enabled depends on the number of ranks, the length of the
\* list and the branch foreach takes, never on f, on the elements of the list or
\* on return_: the runs checked for progress take one f and equal elements.
FairInit ==
    /\ Init
    /\ applyFunc = "square"
    /\ return_
    /\ \A k \in 1 .. Len(worklist) : worklist[k] = 2

FairSpec == FairInit /\ [][Next]_vars /\ \A r \in 0 .. MaxProcs - 1 : WF_vars(RankStep(r))

\* ---- vocabulary of the properties ---------------------------------------------
WorkSent(w) == CountTag(sent[w], MPI_WORKTAG)
DieSent(w) == CountTag(sent[w], MPI_DIETAG)
DieReceived(w) == CountTag(Received(w), MPI_DIETAG)

RECURSIVE TotalWorkSent(_)
TotalWorkSent(n) == IF n = 0 THEN 0 ELSE WorkSent(n) + TotalWorkSent(n - 1)

\* the balancer runs: foreach took the MPI branch and MPIBalancer was constructed
Balancing == UseDistributed /\ ~TooFewProcs
\* MPIBalancer.run has returned on rank r
RunReturned(r) == pc[r] \in {"ret", "done"}
RunCompleted == Balancing /\ \A r \in Ranks : RunReturned(r)
\* rank 0 has left the DIETAG loop
ShutdownOver == Balancing /\ pc[0] \in {"after", "ret", "done"}
AllDone == \A r \in Ranks : pc[r] = "done"

HandledIndices == {handled[j].index : j \in 1 .. Len(handled)}

\* C1: a completed run has made exactly numworks handleWorkResult calls, and
\* at every moment the calls made so far carry pairwise distinct indices of
\* 0 .. numworks-1: no index is consumed twice, and at completion none is missing.
C1_ExactlyOnce ==
    /\ \A j \in 1 .. Len(handled) : handled[j].index \in 0 .. numworks - 1
    /\ \A j, k \in 1 .. Len(handled) : j # k => handled[j].index # handled[k].index
    /\ RunCompleted =>
         /\ Len(handled) = numworks
         /\ HandledIndices = 0 .. numworks - 1

\* a completed run with more items than slaves, two slaves, results out of index order
C1_Witness ==
    /\ RunCompleted
    /\ numprocs = 3
    /\ numworks = 3
    /\ handled[1].index = 1

\* C2: for every slave, WORK messages sent to it minus results it has sent is 0 or 1.
C2_OneInFlight ==
    \A w \in Slaves : WorkSent(w) - nresults[w] \in {0, 1}

\* a slave holds its second assignment, its first result sent, beside another slave
C2_Witness ==
    /\ numprocs = 3
    /\ \E w \in Slaves : WorkSent(w) = 2 /\ nresults[w] = 1

\* no WORK message follows a DIETAG among the messages sent to one slave
NoWorkAfterDie(s) ==
    \A j, k \in 1 .. Len(s) :
        (j < k /\ s[j].tag = MPI_DIETAG) => s[k].tag # MPI_WORKTAG

\* C3: no slave is ever sent more than one DIETAG; once rank 0 has left the
\* DIETAG loop every slave has been sent exactly one, and in a completed run
\* every slave has received exactly one; a slave that has received its DIETAG
\* has sent a result for every WORK message sent to it; and no WORK message is
\* sent to a slave after its DIETAG.
C3_SentinelOnceAndLast ==
    \A w \in Slaves :
        /\ DieSent(w) <= 1
        /\ ShutdownOver => DieSent(w) = 1
        /\ RunCompleted => DieReceived(w) = 1
        /\ DieReceived(w) >= 1 => nresults[w] = WorkSent(w)
        /\ NoWorkAfterDie(sent[w])

\* a completed run in which a slave that worked on two items got its sentinel
C3_Witness ==
    /\ RunCompleted
    /\ numprocs = 3
    /\ \E w \in Slaves : WorkSent(w) = 2 /\ DieReceived(w) = 1

\* C4: once any DIETAG has been sent, every item has been assigned, every
\* result has been sent, received and handled: numcompleted = numworks, no
\* message to rank 0 is in flight, and handleWorkResult has returned numworks times.
C4_SentinelAfterDrain ==
    (\E w \in Slaves : DieSent(w) >= 1) =>
        /\ numcompleted = numworks
        /\ Len(handled) = numworks
        /\ count = numworks
        /\ TotalWorkSent(numprocs - 1) = numworks
        /\ \A w \in Slaves : toMaster[w] = <<>> /\ nresults[w] = WorkSent(w)
        /\ pc[0] \notin {"dispatchSend", "dispatchHandle", "drainHandle"}

\* the first DIETAG has just been sent, after three items on two slaves
C4_Witness ==
    /\ pc[0] = "shutdown"
    /\ i = 2
    /\ numprocs = 3
    /\ numworks = 3
    /\ DieSent(1) = 1

\* C5: when every rank keeps running (and so every calcWorkResult returns and
\* every sent message is received by a rank waiting for it), a balanced run
\* ends with foreach returned on every rank.
C5_Terminates == Balancing ~> AllDone

\* every rank of a balanced run over three items is done
C5_Witness ==
    /\ Balancing
    /\ AllDone
    /\ numprocs = 3
    /\ numworks = 3

\* while numworks = 0 in a balanced run: no WORK message, no handleWorkResult
C6_Safe ==
    (Balancing /\ numworks = 0) =>
        /\ \A w \in Slaves : WorkSent(w) = 0 /\ DieSent(w) <= 1
        /\ handled = <<>>
        /\ count = 0
        /\ pc[0] \notin {"dispatchSend", "dispatchHandle", "drainHandle"}
        /\ ShutdownOver => \A w \in Slaves : DieSent(w) = 1
        /\ RunCompleted => \A w \in Slaves : DieReceived(w) = 1

\* C6: with numworks = 0 rank 0 sends no WORK message and makes no
\* handleWorkResult call, every slave gets exactly one DIETAG, and the run
\* completes on every rank.
C6_ZeroItems ==
    /\ []C6_Safe
    /\ (Balancing /\ numworks = 0) ~> (AllDone /\ \A w \in Slaves : DieReceived(w) = 1)

\* a completed run over no items with two slaves
C6_Witness ==
    /\ RunCompleted
    /\ numworks = 0
    /\ numprocs = 3
    /\ \A w \in Slaves : DieReceived(w) = 1

\* the WORK messages among those sent to one slave
WorkMsgs(s) == SelectSeq(s, LAMBDA m : m.tag = MPI_WORKTAG)
SeedOver == pc[0] \notin {"start", "before", "master", "seed"}

\* C7: with fewer items than slaves, ranks 1..numworks get item rank-1 and
\* nothing else, the other slaves get no WORK message, and every slave gets
\* one DIETAG.
C7_FewerItemsThanSlaves ==
    (Balancing /\ numworks < numprocs - 1) =>
        \A w \in Slaves :
            /\ w <= numworks =>
                 /\ WorkMsgs(sent[w]) \in {<<>>, <<Msg(MPI_WORKTAG, PyInt(w - 1))>>}
                 /\ SeedOver => WorkMsgs(sent[w]) = <<Msg(MPI_WORKTAG, PyInt(w - 1))>>
            /\ w > numworks => WorkSent(w) = 0
            /\ DieSent(w) <= 1
            /\ ShutdownOver => DieSent(w) = 1
            /\ RunCompleted => DieReceived(w) = 1

\* one item, two slaves: rank 1 worked, rank 2 only got its sentinel
C7_Witness ==
    /\ RunCompleted
    /\ numworks = 1
    /\ numprocs = 3
    /\ WorkSent(1) = 1
    /\ sent[2] = <<Msg(MPI_DIETAG, PyStr("#"))>>

C9_SerialEqualsDistributed ==
    (Balancing /\ pc[0] = "done") =>
        retval[0] = ForeachSerial(applyFunc, worklist, return_)

\* a balanced run returned a list of three unequal results, the last arrived first
C9_Witness ==
    /\ Balancing
    /\ return_
    /\ pc[0] = "done"
    /\ numprocs = 3
    /\ numworks = 3
    /\ handled[1].index # 0
    /\ handled[3].index # 2
    /\ worklist[1] # worklist[3]

\* C10: with a communicator of size 1 and useMPI left true, foreach evaluates
\* serially and returns the results; MPIBalancer's exception is never raised.
C10_SingleRankFallsBack ==
    (importOK /\ numprocs = 1 /\ useMPI) =>
        /\ pc[0] # "raised"
        /\ pc[0] \in {"start", "done"}
        /\ pc[0] = "done" => retval[0] = ForeachSerial(applyFunc, worklist, return_)

\* ---- second part: construction, hooks, dispatch order, attribution ------------
\* the number of times x occurs in s
CountOf(s, x) == Cardinality({j \in 1 .. Len(s) : s[j] = x})

\* the work numbers sent to rank w, in order
AssignedTo(w) ==
    LET ms == WorkMsgs(sent[w]) IN [k \in 1 .. Len(ms) |-> ms[k].data.int]

\* C11: when MPIBalancer is constructed on fewer than two processes it raises
\* before anything is called on the work object (no uplink, no
\* getNumWorkItems, no hook) and before any message: no rank leaves the
\* constructor, nothing is sent and rank 0's results are never set up.
C11_FailsBeforeAnything ==
    (UseDistributed /\ TooFewProcs) =>
        /\ \A r \in Ranks : calls[r] = <<>> /\ pc[r] \in {"start", "raised"}
        /\ \A w \in DOMAIN sent : sent[w] = <<>>
        /\ \A w \in DOMAIN toMaster : toMaster[w] = <<>> /\ calcLog[w] = <<>>
        /\ handled = <<>>
        /\ results = <<>>

\* the constructor has raised on the only rank, for a list that is not empty
C11_Witness ==
    /\ UseDistributed
    /\ numprocs = 1
    /\ pc[0] = "raised"
    /\ Len(worklist) = 2

\* what run() and the constructor call on the work object of rank r, in order
CallsOfRole(r) ==
    IF r = 0 THEN <<"uplink", "getNumWorkItems", "masterBeforeWork", "masterAfterWork">>
    ELSE <<"uplink", "getNumWorkItems", "slaveBeforeWork", "slaveAfterWork">>
HasCalled(r, h) == \E j \in 1 .. Len(calls[r]) : calls[r][j] = h

\* C13: on every rank each hook is called at most once and only the hooks of
\* the rank's role; when run() has returned the rank's calls are uplink,
\* getNumWorkItems, its before-hook, its after-hook, in that order; a rank
\* that has sent or received a message has called its before-hook; rank 0
\* calls masterAfterWork only after the last DIETAG is sent, and a slave calls
\* slaveAfterWork only after it received its DIETAG, with nothing left to receive.
C13_HooksOncePerRole ==
    Balancing =>
        /\ \A r \in Ranks :
              /\ Len(calls[r]) <= 4
              /\ calls[r] = SubSeq(CallsOfRole(r), 1, Len(calls[r]))
              /\ RunReturned(r) => calls[r] = CallsOfRole(r)
        /\ ((\E w \in Slaves : sent[w] # <<>>) \/ numcompleted > 0) =>
              HasCalled(0, "masterBeforeWork")
        /\ \A w \in Slaves : (Received(w) # <<>> \/ nresults[w] > 0) =>
              HasCalled(w, "slaveBeforeWork")
        /\ HasCalled(0, "masterAfterWork") =>
              /\ RunReturned(0)
              /\ numcompleted = numworks
              /\ \A w \in Slaves : DieSent(w) = 1 /\ toMaster[w] = <<>>
        /\ \A w \in Slaves : HasCalled(w, "slaveAfterWork") =>
              /\ RunReturned(w)
              /\ DieReceived(w) = 1
              /\ toSlave[w] = <<>>
              /\ nresults[w] = WorkSent(w)

\* every rank is back from run(), after work on two slaves
C13_Witness ==
    /\ RunCompleted
    /\ numprocs = 3
    /\ numworks = 2
    /\ \A w \in Slaves : HasCalled(w, "slaveAfterWork") /\ nresults[w] = 1

\* the work numbers sent so far are pairwise different, over all slaves
NoIndexAssignedTwice ==
    \A w, v \in Slaves : \A j \in 1 .. Len(AssignedTo(w)) : \A k \in 1 .. Len(AssignedTo(v)) :
        (w # v \/ j # k) => AssignedTo(w)[j] # AssignedTo(v)[k]

\* a receive of the dispatch loop: the status names the rank whose message was taken
DispatchRecvStep ==
    (pc[0] = "dispatch" /\ pc'[0] = "dispatchSend") =>
        /\ statusSource' \in Slaves
        /\ toMaster[statusSource'] # <<>>
        /\ toMaster' = [toMaster EXCEPT ![statusSource'] = Tail(@)]
        /\ result' = Head(toMaster[statusSource']).data

\* a send of the dispatch loop
DispatchSendStep ==
    (pc[0] = "dispatchSend" /\ pc'[0] = "dispatchHandle") =>
        /\ work \in Min(numprocs - 1, numworks) .. numworks - 1
        /\ work = Min(numprocs - 1, numworks) + numcompleted - 1
        /\ sent' = [sent EXCEPT ![statusSource] = Append(@, Msg(MPI_WORKTAG, PyInt(work)))]
        /\ Len(handled) = numcompleted - 1
        /\ handled' = handled

\* the handleWorkResult of the dispatch loop comes after the send, for the same result
DispatchHandleStep ==
    (pc[0] = "dispatchHandle" /\ pc'[0] = "dispatch") =>
        /\ handled' = Append(handled, [index |-> result[1], value |-> result[2],
                                       source |-> statusSource])
        /\ sent' = sent
        /\ AssignedTo(statusSource)[Len(AssignedTo(statusSource))] = work
        /\ work' = work + 1

\* C16: the dispatch loop hands out the work numbers min(W, M) .. M-1 in
\* ascending order, one for each result received; each goes to the rank whose
\* result was just received and to no other, before handleWorkResult is called
\* on that result; and no work number is ever sent twice.
C16_DispatchInOrder ==
    /\ [](Balancing => NoIndexAssignedTwice)
    /\ [](Balancing /\ pc[0] \in {"drain", "drainHandle", "shutdown", "after", "ret", "done"}
            => TotalWorkSent(numprocs - 1) = numworks)
    /\ [][DispatchRecvStep /\ DispatchSendStep /\ DispatchHandleStep]_vars

\* the dispatch loop is handing its second item of the run to rank 2
C16_Witness ==
    /\ pc[0] = "dispatchHandle"
    /\ numprocs = 3
    /\ numworks = 3
    /\ statusSource = 2
    /\ AssignedTo(2) = <<1, 2>>

\* C17: every handleWorkResult call carries an index that was sent to the rank
\* given as its source, which that rank, and no other, computed with exactly
\* one calcWorkResult call, together with the value f(l[index]).
C17_ResultAttributed ==
    \A j \in 1 .. Len(handled) :
        LET h == handled[j]
        IN /\ h.source \in Slaves
           /\ CountOf(AssignedTo(h.source), h.index) = 1
           /\ CountOf(calcLog[h.source], h.index) = 1
           /\ \A w \in Slaves \ {h.source} : CountOf(calcLog[w], h.index) = 0
           /\ h.value = Apply(applyFunc, worklist[h.index + 1])

\* a result of rank 2 was handled in the dispatch loop, after the send to rank 2
C17_Witness ==
    /\ numprocs = 3
    /\ numworks = 3
    /\ pc[0] = "dispatch"
    /\ Len(handled) = 1
    /\ handled[1].source = 2
    /\ Len(sent[2]) = 2

\* C18: when comm.send returns only on receipt, rank 0 is never waiting in a
\* send to a slave that is itself waiting in a send to rank 0, and the only
\* state of a balanced run in which no rank can take a step is the one in
\* which every rank is done.
C18_NoSendDeadlock ==
    (rendezvous /\ Balancing) =>
        /\ \A w \in Slaves : ~(toSlave[w] # <<>> /\ toMaster[w] # <<>>)
        /\ AllDone \/ ENABLED Next

\* rank 0 waits in its send of the dispatch loop until the slave receives
C18_Witness ==
    /\ rendezvous
    /\ Balancing
    /\ numprocs = 3
    /\ pc[0] = "dispatchHandle"
    /\ toSlave[statusSource] # <<>>
    /\ \E w \in Slaves : w # statusSource /\ toMaster[w] # <<>>

RECURSIVE ResultsReceived(_)
ResultsReceived(n) ==
    IF n = 0 THEN 0 ELSE nresults[n] - Len(toMaster[n]) + ResultsReceived(n - 1)

\* C20: numcompleted is the number of result messages rank 0 has received, is
\* at most numworks, WORK messages sent minus numcompleted lies in
\* 0 .. min(W, M), and once the drain loop is left numcompleted = numworks.
C20_CompletionCounter ==
    Balancing =>
        /\ numcompleted = ResultsReceived(numprocs - 1)
        /\ numcompleted <= numworks
        /\ TotalWorkSent(numprocs - 1) - numcompleted \in 0 .. Min(numprocs - 1, numworks)
        /\ pc[0] \in {"shutdown", "after", "ret", "done"} => numcompleted = numworks

\* the drain loop has just been left after three results of two slaves
C20_Witness ==
    /\ Balancing
    /\ pc[0] = "shutdown"
    /\ i = 1
    /\ numprocs = 3
    /\ numcompleted = 3

\* ---- calcWorkResult raising ------------------------------------------------------
\* self.work.calcWorkResult(worknum) raises: nothing in slave(), run() or foreach
\* catches it, and the process of rank w ends without the send of line 164
SlaveCalcRaise(w) ==
    /\ pc[w] = "calc"
    /\ SlaveSendReturned(w)
    /\ calcLog' = [calcLog EXCEPT ![w] = Append(@, slaveResult[w].int)]
    /\ pc' = [pc EXCEPT ![w] = "raised"]
    /\ UNCHANGED <<inputs, run, msState, channels, masterLocals, slaveLocals, gmpi, retval, history, calls>>

FaultNext ==
    \/ Next
    \/ \E w \in Slaves : SlaveCalcRaise(w)

\* the runs in which calcWorkResult may raise; raising is never forced
FaultSpec ==
    FairInit /\ [][FaultNext]_vars /\ \A r \in 0 .. MaxProcs - 1 : WF_vars(RankStep(r))

SomeSlaveRaised == Balancing /\ \E w \in Slaves : pc[w] = "raised"

\* rank 0 waits in a receive of the dispatch or drain loop, and nothing comes
MasterWaitsForEver ==
    /\ pc[0] \in {"dispatch", "drain"}
    /\ numcompleted < numworks
    /\ \A w \in Slaves : toMaster[w] = <<>> /\ pc[w] \in {"recv", "raised"}

\* the slaves that did not raise wait in their receive, and nothing comes
OtherSlavesWaitForEver ==
    \A w \in Slaves : pc[w] # "raised" => (pc[w] = "recv" /\ toSlave[w] = <<>>)

C14_Safe ==
    SomeSlaveRaised =>
        /\ NoIndexAssignedTwice
        /\ numcompleted < numworks
        /\ Len(handled) < numworks
        /\ pc[0] \notin {"shutdown", "after", "ret", "done"}
        /\ \A w \in Slaves : DieSent(w) = 0 /\ pc[w] \notin {"after", "ret", "done"}
        /\ \A w \in Slaves : pc[w] = "raised" =>
              /\ nresults[w] = WorkSent(w) - 1
              /\ toSlave[w] = <<>>

\* C14: once calcWorkResult has raised on a slave, the item it held is never
\* sent again, numcompleted stays below numworks, no DIETAG is ever sent and no
\* rank returns from run(); rank 0 ends up waiting for ever in its receive
\* from any source, and every slave that did not raise in its receive from rank 0.
C14_RaiseIsNotRecovered ==
    /\ []C14_Safe
    /\ SomeSlaveRaised ~> [](MasterWaitsForEver /\ OtherSlavesWaitForEver)

\* rank 1 raised on its second item; rank 0 and rank 2 wait
C14_Witness ==
    /\ numprocs = 3
    /\ numworks = 3
    /\ pc[1] = "raised"
    /\ WorkSent(1) = 2
    /\ pc[2] = "recv"
    /\ MasterWaitsForEver
    /\ OtherSlavesWaitForEver

\* ---- a work object whose getNumWorkItems is negative ---------------------------
\* the work object is GenericMPI as it is, or one whose getNumWorkItems returns
\* a negative number; f and the elements of the list are fixed as in FairInit
ContractInit ==
    /\ Start
    /\ applyFunc = "square"
    /\ return_
    /\ \A k \in 1 .. Len(worklist) : worklist[k] = 2
    /\ countOverride \in {{}} \cup {{0 - n} : n \in 1 .. MaxNeg}
    /\ OneCall
    /\ ForeachCall

ContractSpec ==
    ContractInit /\ [][Next]_vars /\ \A r \in 0 .. MaxProcs - 1 : WF_vars(RankStep(r))

NegativeCount == numworks < 0

\* C12 as the specification states it: with a negative getNumWorkItems no
\* rank gets past MPIBalancer.__init__ and no WORK or DIETAG message is sent.
C12_NegativeIsFatal ==
    (NegativeCount /\ UseDistributed) =>
        /\ \A r \in Ranks : pc[r] \in {"start", "raised"}
        /\ \A w \in Slaves : sent[w] = <<>>

C12_Safe ==
    (NegativeCount /\ Balancing) =>
        /\ \A r \in Ranks : pc[r] # "raised"
        /\ numcompleted = 0
        /\ handled = <<>>
        /\ \A w \in Slaves :
              /\ WorkSent(w) = 0
              /\ calcLog[w] = <<>>
              /\ toMaster[w] = <<>>
              /\ DieSent(w) <= 1
              /\ pc[w] \notin {"calc", "send"}
        /\ pc[0] \notin {"dispatchSend", "dispatchHandle", "drainHandle"}
        /\ pc[0] \in {"after", "ret", "done"} => \A w \in Slaves : DieSent(w) = 1
        /\ \A w \in Slaves : pc[w] \in {"after", "ret", "done"} => DieReceived(w) = 1

\* C12 (amended): a negative getNumWorkItems is not rejected. With two ranks or
\* more MPIBalancer.__init__ succeeds; rank 0 sends no WORK message, receives
\* nothing and calls handleWorkResult never; it sends every slave one DIETAG,
\* and every rank returns from run(), as with no item at all.
C12_NegativeRunsAsEmpty ==
    /\ []C12_Safe
    /\ (NegativeCount /\ Balancing) ~> AllDone

C12_Witness ==
    /\ NegativeCount
    /\ numprocs = 3
    /\ Len(worklist) = 2
    /\ AllDone
    /\ \A w \in Slaves : DieReceived(w) = 1

\* ---- foreach called again -------------------------------------------------------
\* rank r, back from one foreach call, makes the next one; the ranks do so each
\* at its own pace, rank 0 possibly while a slave has not returned yet
NextRun(r) ==
    /\ pc[r] = "done"
    /\ run[r] < MaxRuns
    /\ run' = [run EXCEPT ![r] = @ + 1]
    /\ pc' = [pc EXCEPT ![r] = "start"]
    /\ UNCHANGED <<inputs, msState, channels, masterLocals, slaveLocals, gmpi, retval, history, callLog>>

TwoRunNext ==
    \/ Next
    \/ \E r \in Ranks : NextRun(r)

\* the first call maps the list of 2s, the next ones a list of 3s, so that the
\* values tell the runs apart; balancer.run(finalRun) gets either value
TwoRunInit ==
    /\ Start
    /\ countOverride = {}
    /\ applyFunc = "square"
    /\ return_
    /\ \A k \in 1 .. Len(worklist) : worklist[k] = 2
    /\ nextlist \in SeqsUpTo({3}, MaxLen)
    /\ finalRun \in BOOLEAN
    /\ ForeachCall

TwoRunSpec == TwoRunInit /\ [][TwoRunNext]_vars

\* the places in sent[w] of the messages rank 0 sent in its run k, those of
\* them that are DIETAGs, and the places in handled of the calls of run k
SentIdx(w, k) == {j \in 1 .. Len(sent[w]) : runLog.sent[w][j] = k}
DieIdx(w, k) == {j \in SentIdx(w, k) : sent[w][j].tag = MPI_DIETAG}
HandledIdx(k) == {j \in 1 .. Len(handled) : runLog.handled[j] = k}
MasterFinished(k) == run[0] > k \/ (run[0] = k /\ pc[0] \in {"after", "ret", "done"})
\* the run in which rank 0 sent the message slave w receives next
HeadRun(w) == runLog.sent[w][Len(sent[w]) - Len(toSlave[w]) + 1]

\* C19: with foreach called again and again, whatever finalRun is: the message
\* a slave receives in its run k was sent by rank 0 in its run k (so the DIETAG
\* of run k is consumed before any WORK of run k+1, and no WORK of run k+1 is
\* taken in run k); every result rank 0 can receive was sent in the run rank 0
\* is in; and every run by itself handles each index of its own list once,
\* with the value of its own list, and sends each slave one DIETAG, last.
C19_RunsDoNotInterfere ==
    Balancing =>
        /\ \A w \in Slaves : (pc[w] = "recv" /\ toSlave[w] # <<>>) => HeadRun(w) = run[w]
        /\ \A w \in Slaves :
              \A j \in nresults[w] - Len(toMaster[w]) + 1 .. nresults[w] :
                  runLog.res[w][j] = run[0]
        /\ \A k \in 1 .. MaxRuns :
              /\ \A j1, j2 \in HandledIdx(k) :
                    handled[j1].index = handled[j2].index => j1 = j2
              /\ \A j \in HandledIdx(k) :
                    /\ handled[j].index \in 0 .. Len(RunList(k)) - 1
                    /\ handled[j].value = Apply(applyFunc, RunList(k)[handled[j].index + 1])
              /\ \A w \in Slaves :
                    /\ Cardinality(DieIdx(w, k)) <= 1
                    /\ \A j \in DieIdx(w, k) : \A j2 \in SentIdx(w, k) : j2 <= j
              /\ MasterFinished(k) =>
                    /\ Cardinality(HandledIdx(k)) = Len(RunList(k))
                    /\ \A w \in Slaves : Cardinality(DieIdx(w, k)) = 1
        /\ pc[0] = "done" => retval[0] = ForeachSerial(applyFunc, ListOf(0), return_)

\* rank 0 has seeded its second run while slave 2 has not yet consumed the
\* DIETAG of the first; finalRun is False
C19_Witness ==
    /\ ~finalRun
    /\ numprocs = 3
    /\ Len(worklist) = 3
    /\ Len(nextlist) = 2
    /\ run[0] = 2
    /\ run[2] = 1
    /\ pc[2] = "recv"
    /\ Len(toSlave[2]) = 2
    /\ toSlave[2][1].tag = MPI_DIETAG
    /\ toSlave[2][2].tag = MPI_WORKTAG

\* ---- RunMasterSlave and SimpleMasterSlave ----------------------------------------
\* hasattr(x, '__init__'): every Python 3 object has the attribute, a class and
\* an instance alike
HasInit(x) == TRUE

\* x(): a class gives a new object; a ready master or slave object is called
\* without the arguments its __call__ takes, a TypeError
Construct(x) == IF x = "class" THEN "new" ELSE "TypeError"

\* the master object rank 0 returns, with the pairs it was called with
\* (index, value, index, value, ...), and a slave object
MasterObject(which, pairs) == [kind |-> "master", value |-> pairs, which |-> which]
SlaveObject(which) == [kind |-> "slave", value |-> <<>>, which |-> which]

RECURSIVE Flat(_)
Flat(h) == IF h = <<>> THEN <<>> ELSE <<Head(h).index, Head(h).value>> \o Flat(Tail(h))

\* master(i, slave(workParams[i])) for i in range(len(workParams))
SerialPairs(l) == [j \in 1 .. 2 * Len(l) |->
                      IF j % 2 = 1 THEN (j - 1) \div 2 ELSE Apply(applyFunc, l[j \div 2])]

\* SimpleMasterSlave.masterBeforeWork, the if/else: the object, and what was called
MasterResolve ==
    IF ~HasInit(masterClass) THEN <<"given", <<>>>>
    ELSE <<Construct(masterClass), <<"masterClass">>>>

\* SimpleMasterSlave.slaveBeforeWork: the if has no else, and the assignment
\* after it is made in either case
SlaveResolve == <<Construct(slaveClass), <<"slaveClass">>>>

MSMasterBeforeWork ==
    /\ entry = "RunMasterSlave"
    /\ pc[0] = "before"
    /\ MasterSendReturned
    /\ invoked' = [invoked EXCEPT ![0] = @ \o MasterResolve[2]]
    /\ calls' = [calls EXCEPT ![0] = Append(@, BeforeHook(0))]
    /\ IF MasterResolve[1] = "TypeError"
       THEN /\ pc' = [pc EXCEPT ![0] = "raised"]
            /\ UNCHANGED <<masterInstance, results>>
       ELSE /\ masterInstance' = [masterInstance EXCEPT ![0] = MasterResolve[1]]
            /\ results' = [k \in 1 .. Len(ListOf(0)) |-> None]
            /\ pc' = [pc EXCEPT ![0] = "master"]
    /\ UNCHANGED <<inputs, run, slaveInstance, channels, masterLocals, slaveLocals, count,
                   retval, history, calcLog>>

MSSlaveBeforeWork(w) ==
    /\ entry = "RunMasterSlave"
    /\ pc[w] = "before"
    /\ SlaveSendReturned(w)
    /\ invoked' = [invoked EXCEPT ![w] = @ \o SlaveResolve[2]]
    /\ calls' = [calls EXCEPT ![w] = Append(@, BeforeHook(w))]
    /\ IF SlaveResolve[1] = "TypeError"
       THEN /\ pc' = [pc EXCEPT ![w] = "raised"]
            /\ UNCHANGED slaveInstance
       ELSE /\ slaveInstance' = [slaveInstance EXCEPT ![w] = SlaveResolve[1]]
            /\ pc' = [pc EXCEPT ![w] = "recv"]
    /\ UNCHANGED <<inputs, run, masterInstance, channels, masterLocals, slaveLocals, gmpi,
                   retval, history, calcLog>>

\* the serial branch of RunMasterSlave, whole: master = masterClass(),
\* slave = slaveClass(), then the loop
MSLocal(r) ==
    /\ entry = "RunMasterSlave"
    /\ pc[r] = "start"
    /\ ~UseDistributed
    /\ IF Construct(masterClass) = "TypeError"
       THEN /\ invoked' = [invoked EXCEPT ![r] = Append(@, "masterClass")]
            /\ pc' = [pc EXCEPT ![r] = "raised"]
            /\ UNCHANGED <<masterInstance, slaveInstance, retval>>
       ELSE IF Construct(slaveClass) = "TypeError"
       THEN /\ invoked' = [invoked EXCEPT ![r] = @ \o <<"masterClass", "slaveClass">>]
            /\ masterInstance' = [masterInstance EXCEPT ![r] = "new"]
            /\ pc' = [pc EXCEPT ![r] = "raised"]
            /\ UNCHANGED <<slaveInstance, retval>>
       ELSE /\ invoked' = [invoked EXCEPT ![r] = @ \o <<"masterClass", "slaveClass">>]
            /\ masterInstance' = [masterInstance EXCEPT ![r] = "new"]
            /\ slaveInstance' = [slaveInstance EXCEPT ![r] = "new"]
            /\ retval' = [retval EXCEPT ![r] = MasterObject("new", SerialPairs(ListOf(r)))]
            /\ pc' = [pc EXCEPT ![r] = "done"]
    /\ UNCHANGED <<inputs, run, channels, masterLocals, slaveLocals, gmpi, history, callLog>>

\* MSRunner.getMasterInstance() on rank 0, MSRunner.getSlaveInstance() elsewhere
MSReturn(r) ==
    /\ entry = "RunMasterSlave"
    /\ pc[r] = "ret"
    /\ IF r = 0 THEN MasterSendReturned ELSE SlaveSendReturned(r)
    /\ retval' = [retval EXCEPT ![r] =
                     IF MY_RANK(r) = 0 THEN MasterObject(masterInstance[0], Flat(handled))
                     ELSE SlaveObject(slaveInstance[r])]
    /\ pc' = [pc EXCEPT ![r] = "done"]
    /\ UNCHANGED <<inputs, run, msState, channels, masterLocals, slaveLocals, gmpi, history,
                   callLog>>

MSNext ==
    \/ \E r \in Ranks : MSLocal(r)
    \/ \E r \in Ranks : BalancerInit(r)
    \/ MSMasterBeforeWork
    \/ MasterEnter
    \/ MasterSeedSend
    \/ MasterSeedDone
    \/ MasterDispatchRecv
    \/ MasterDispatchSend
    \/ MasterDispatchHandle
    \/ MasterDispatchDone
    \/ MasterDrainRecv
    \/ MasterDrainHandle
    \/ MasterDrainDone
    \/ MasterDieSend
    \/ MasterShutdownDone
    \/ MasterAfterWork
    \/ \E w \in Slaves : MSSlaveBeforeWork(w)
    \/ \E w \in Slaves : SlaveRecv(w)
    \/ \E w \in Slaves : SlaveCalc(w)
    \/ \E w \in Slaves : SlaveSend(w)
    \/ \E w \in Slaves : SlaveAfterWork(w)
    \/ \E r \in Ranks : MSReturn(r)

\* RunMasterSlave(masterClass, slaveClass, workParams, useMPI), each of the two
\* a class or a ready object
MSInit ==
    /\ Start
    /\ countOverride = {}
    /\ OneCall
    /\ entry = "RunMasterSlave"
    /\ masterClass \in {"class", "instance"}
    /\ slaveClass \in {"class", "instance"}

MSSpec == MSInit /\ [][MSNext]_vars

\* rank r is past the place where it resolves its master (rank 0, or any rank
\* on the serial path) and its slave (the other ranks, or the serial path)
MasterResolved(r) ==
    IF UseDistributed THEN r = 0 /\ pc[0] \notin {"start", "before"} ELSE pc[r] # "start"
SlaveResolved(r) ==
    IF UseDistributed THEN r # 0 /\ pc[r] \notin {"start", "before"} ELSE pc[r] # "start"

\* C15: RunMasterSlave takes each of its two arguments as a ready object or as
\* a constructor without arguments. A ready object is never called as a
\* constructor and no rank fails on it; a constructor is called once where the
\* object is needed; this on the slaves, on rank 0 and on the serial path; and
\* what rank 0 (or the serial path) returns is the master object that was
\* called with every (index, value) pair.
C15_InstanceOrConstructor ==
    (entry = "RunMasterSlave" /\ (UseDistributed => ~TooFewProcs)) =>
        \A r \in Ranks :
            /\ pc[r] # "raised"
            /\ masterClass = "instance" => CountOf(invoked[r], "masterClass") = 0
            /\ slaveClass = "instance" => CountOf(invoked[r], "slaveClass") = 0
            /\ masterClass = "class" =>
                  CountOf(invoked[r], "masterClass") = (IF MasterResolved(r) THEN 1 ELSE 0)
            /\ slaveClass = "class" =>
                  CountOf(invoked[r], "slaveClass") = (IF SlaveResolved(r) THEN 1 ELSE 0)
            /\ (pc[r] = "done" /\ (r = 0 \/ ~UseDistributed)) =>
                  /\ retval[r].kind = "master"
                  /\ retval[r].which = (IF masterClass = "class" THEN "new" ELSE "given")
                  /\ retval[r].value = SerialPairs(ListOf(r))
                        \/ (UseDistributed /\ retval[r].value = Flat(handled)
                              /\ Len(handled) = Len(ListOf(r)))

====
